---------------------------- MODULE Spec2Model ----------------------------
(***************************************************************************)
(* A model of the cyberpink-christmas scene: the App component (mode and   *)
(* gesture state), the GestureController prediction loop, the              *)
(* ChristmasTree animation loop and the point-sampling functions of        *)
(* mathUtils.                                                              *)
(*                                                                         *)
(* Numbers.  The program computes in IEEE doubles; the model computes in   *)
(* fixed point.  A length or a normalised coordinate x is the integer      *)
(* x * UNIT.  A component of a Vector3 is the integer x * POS, where       *)
(* POS = PER * UNIT * DIR and DIR is the denominator of the direction      *)
(* table that stands for cos and sin (rational points of the unit circle,  *)
(* so that cos^2 + sin^2 = 1 holds exactly; PER = 2 keeps every component  *)
(* even, so that a multiplication by 1.5 is exact).  The transition t is   *)
(* the integer t * TDen, and the positions the frame callback renders are  *)
(* kept multiplied by TDen, so that the blend is exact.                    *)
(***************************************************************************)
EXTENDS Integers, Sequences, FiniteSets, TLC

\* ------------------------------------------------------------------ bounds

\* Particles per group.  The program has 5000, 1500 and 800; the model keeps
\* the same generation and animation code over shorter sequences.
COUNT_LEAVES == 3
COUNT_ORNAMENTS == 2
COUNT_RIBBON == 2
\* Seeds of the pseudo-random draws taken at data generation: 1..MaxSeed.
MaxSeed == 2
\* A frame's delta time is k/5 s for k in 1..MaxDelta.
MaxDelta == 4
\* The transition value is kept to PrecBits binary digits ...
PrecBits == 2
\* ... and frames that would take it beyond +-MaxOvershoot are not drawn.
MaxOvershoot == 2
\* video.currentTime takes the values 0..MaxVideoTime.
MaxVideoTime == 1

\* ------------------------------------------------------------- fixed point

UNIT == 10 * 10
DIR == 2 + 3
POS == 2 * UNIT * DIR
PER == POS \div (UNIT * DIR)
TURN == UNIT * UNIT
TDen == 2 ^ PrecBits
DELTA_DEN == 2 + 3

Abs(x) == IF x < 0 THEN -x ELSE x
Max(a, b) == IF a >= b THEN a ELSE b

\* Math.sqrt / Math.hypot, rounded down to the fixed-point grid.
RECURSIVE IsqrtIn(_, _, _)
IsqrtIn(n, lo, hi) ==
    IF lo = hi THEN lo
    ELSE LET mid == (lo + hi + 1) \div 2
         IN  IF mid * mid <= n THEN IsqrtIn(n, mid, hi) ELSE IsqrtIn(n, lo, mid - 1)
Isqrt(n) == IsqrtIn(n, 0, IF n < 4 * UNIT * UNIT THEN 2 * UNIT ELSE 400 * UNIT)
\* Math.cbrt, rounded down.
Icbrt(n) == CHOOSE k \in 0..UNIT : k * k * k <= n /\ n < (k + 1) * (k + 1) * (k + 1)
\* Math.hypot(dx, dy)
Hypot(dx, dy) == Isqrt(dx * dx + dy * dy)

\* The direction of an angle given in 1/TURN of a full turn, as a rational
\* point <<c, s>> / DIR of the unit circle: the nearest of the twelve points
\* (5,0) (4,3) (3,4) (0,5) ... .  Cos and Sin are its two components.
QuadrantDir(r) ==
    IF r < 512 THEN <<5, 0>>
    ELSE IF r < 1250 THEN <<4, 3>>
    ELSE IF r < 1988 THEN <<3, 4>>
    ELSE <<0, 5>>
RECURSIVE Rot90(_, _)
Rot90(v, q) == IF q = 0 THEN v ELSE Rot90(<<-v[2], v[1]>>, q - 1)
Direction(a) == Rot90(QuadrantDir((a % TURN) % (TURN \div 4)), (a % TURN) \div (TURN \div 4))
Cos(a) == Direction(a)[1]
Sin(a) == Direction(a)[2]

\* Math.random(): the n-th draw of a run started from `seed`, in [0, 1).
Random(seed, n) == (seed * 37 + n * 61 + (n * n) * 7) % UNIT


\* ---------------------------------------------------------------- mathUtils

Vec(x, y, z) == <<x, y, z>>

\* A random point inside a sphere; u, v, w are its three Math.random() draws.
getRandomSpherePoint(radius, u, v, w) ==
    LET a == u * (TURN \div UNIT)                       \* theta = 2 * PI * u
        cosPhi == 2 * v - UNIT                          \* phi = acos(2 * v - 1)
        sinPhi == Isqrt(UNIT * UNIT - cosPhi * cosPhi)
        r == (Icbrt(w * UNIT * UNIT) * radius) \div UNIT \* cbrt(random) * radius
    IN  Vec(((r * sinPhi) \div UNIT) * Cos(a) * PER,
            ((r * sinPhi) \div UNIT) * Sin(a) * PER,
            ((r * cosPhi * DIR) \div UNIT) * PER)

\* PI * (3 - sqrt(5)) radians, in 1/TURN of a turn.
goldenAngle == 3820

\* Mutant of getTreePosition: the noise is not centred ((random) * 0.5).
getTreePosition_uncentred(index, total, radiusBase, height, yOffset, rand) ==
    LET y == (index * height) \div total
        radiusAtY == (radiusBase * (height - y)) \div height
        theta == index * goldenAngle
        rNoise == (rand * (UNIT \div 2)) \div UNIT
        finalRadius == Max(0, radiusAtY + rNoise)
    IN  Vec(Cos(theta) * finalRadius * PER, (y + yOffset) * DIR * PER,
            Sin(theta) * finalRadius * PER)

\* A position on the cone of the tree; rand is its Math.random() draw.
getTreePosition(index, total, radiusBase, height, yOffset, rand) ==
    LET y == (index * height) \div total                      \* (index / total) * height
        radiusAtY == (radiusBase * (height - y)) \div height  \* radiusBase * (1 - y / height)
        theta == index * goldenAngle
        rNoise == ((rand - UNIT \div 2) * (UNIT \div 2)) \div UNIT  \* (random - 0.5) * 0.5
        finalRadius == Max(0, radiusAtY + rNoise)
    IN  Vec(Cos(theta) * finalRadius * PER, (y + yOffset) * DIR * PER,
            Sin(theta) * finalRadius * PER)

\* A position on the ribbon spiral; t in [0, 1] and turns are fixed point.
getRibbonPosition(t, radiusBase, height, turns, yOffset) ==
    LET angle == (t * turns * TURN) \div (UNIT * UNIT)        \* t * 2 * PI * turns
        y == (t * height) \div UNIT
        r == (radiusBase * (UNIT - t)) \div UNIT + UNIT \div 5 \* radiusBase * (1 - t) + 0.2
    IN  Vec(Cos(angle) * r * PER, (y + yOffset) * DIR * PER, Sin(angle) * r * PER)

\* ------------------------------------------------------------ ChristmasTree

EXPLOSION_RADIUS == 15 * UNIT
TREE_HEIGHT == 10 * UNIT
TREE_RADIUS == (35 * UNIT) \div 10
TREE_Y_OFFSET == -((35 * UNIT) \div 10)

\* The Math.random() draws are numbered in the order the useMemo bodies run.
LeafDraw(i, j) == i * 5 + j
OrnamentDraw(i, j) == COUNT_LEAVES * 5 + i * 6 + j
RibbonDraw(i, j) == COUNT_LEAVES * 5 + COUNT_ORNAMENTS * 6 + i * 3 + j
StarDraw(j) == COUNT_LEAVES * 5 + COUNT_ORNAMENTS * 6 + COUNT_RIBBON * 3 + j

\* Particle i of a group is element i + 1 of its sequence.
\* scale is in 1/(UNIT * UNIT).
GenLeaves(seed) ==
    [n \in 1..COUNT_LEAVES |->
        LET i == n - 1 IN
        [treePos |-> getTreePosition(i, COUNT_LEAVES, TREE_RADIUS, TREE_HEIGHT,
                                     TREE_Y_OFFSET, Random(seed, LeafDraw(i, 0))),
         explodePos |-> getRandomSpherePoint(EXPLOSION_RADIUS,
                                     Random(seed, LeafDraw(i, 1)),
                                     Random(seed, LeafDraw(i, 2)),
                                     Random(seed, LeafDraw(i, 3))),
         scale |-> Random(seed, LeafDraw(i, 4)) * 15 + 5 * UNIT]]

GenOrnaments(seed) ==
    [n \in 1..COUNT_ORNAMENTS |->
        LET i == n - 1
            p == getTreePosition(i, COUNT_ORNAMENTS, (TREE_RADIUS * 11) \div 10,
                                 TREE_HEIGHT, TREE_Y_OFFSET,
                                 Random(seed, OrnamentDraw(i, 0)))
            jitter == (Random(seed, OrnamentDraw(i, 1)) - UNIT \div 2) * DIR * PER
        IN
        [treePos |-> Vec(p[1], p[2] + jitter, p[3]),
         explodePos |-> getRandomSpherePoint((EXPLOSION_RADIUS * 12) \div 10,
                                     Random(seed, OrnamentDraw(i, 2)),
                                     Random(seed, OrnamentDraw(i, 3)),
                                     Random(seed, OrnamentDraw(i, 4))),
         scale |-> Random(seed, OrnamentDraw(i, 5)) * 5 + 2 * UNIT]]

GenRibbon(seed) ==
    [n \in 1..COUNT_RIBBON |->
        LET i == n - 1
            t == (i * UNIT) \div COUNT_RIBBON
        IN
        [treePos |-> getRibbonPosition(t, TREE_RADIUS + UNIT \div 5, TREE_HEIGHT,
                                       (35 * UNIT) \div 10, TREE_Y_OFFSET),
         explodePos |-> getRandomSpherePoint((EXPLOSION_RADIUS * 15) \div 10,
                                     Random(seed, RibbonDraw(i, 0)),
                                     Random(seed, RibbonDraw(i, 1)),
                                     Random(seed, RibbonDraw(i, 2))),
         scale |-> 8 * UNIT]]

GenStarExplodePos(seed) ==
    getRandomSpherePoint((EXPLOSION_RADIUS * 8) \div 10,
                         Random(seed, StarDraw(0)), Random(seed, StarDraw(1)),
                         Random(seed, StarDraw(2)))

GenStarTreePos == Vec(0, (TREE_HEIGHT + TREE_Y_OFFSET + UNIT \div 5) * DIR * PER, 0)


\* -------------------------------------------------------------------- state

VARIABLES
    mode,            \* App: useState<AppMode>
    gestureState,    \* App: useState<GestureState>
    transitionRef,   \* ChristmasTree: transitionRef.current, times TDen
    leavesData,      \* ChristmasTree: the three useMemo particle sequences
    ornamentsData,
    ribbonData,
    starTreePos,
    starExplodePos,
    leavesMatrix,    \* what the last frame wrote with setMatrixAt: per instance
    ornamentsMatrix, \*   [position (times TDen), scale (times 2 * TDen)]
    ribbonMatrix,
    starPosition,    \* starRef.current.position, times TDen
    ctrl,            \* GestureController: where the effect's async setup is
    loading,         \* GestureController: useState(true)
    error,           \* GestureController: useState<string | null>(null)
    lastVideoTime,   \* GestureController: the effect's lastVideoTime
    tickCalls,       \* the callbacks the latest predictWebcam call delivered
    lastTick,        \* what the latest predictWebcam call did besides
    cleaned,         \* GestureController: the effect's cleanup has run
    videoRef,        \* GestureController: videoRef.current and canvasRef.current
    handLandmarker,  \* GestureController: the effect's handLandmarker
    stream,          \* the camera stream getUserMedia handed out
    tickScheduled,   \* the animation frame animationFrameId names is pending
    treeCall         \* the latest direct calls of getTreePosition (MathSpec)

vars == <<mode, gestureState, transitionRef, leavesData, ornamentsData, ribbonData,
          starTreePos, starExplodePos, leavesMatrix, ornamentsMatrix, ribbonMatrix,
          starPosition, ctrl, loading, error, lastVideoTime, tickCalls, lastTick,
          cleaned, videoRef, handLandmarker, stream, tickScheduled, treeCall>>

appVars == <<mode, gestureState>>
dataVars == <<leavesData, ornamentsData, ribbonData, starTreePos, starExplodePos>>
sceneVars == <<transitionRef, leavesMatrix, ornamentsMatrix, ribbonMatrix, starPosition>>
controllerVars == <<ctrl, loading, error, lastVideoTime, tickCalls, lastTick,
                    cleaned, videoRef, handLandmarker, stream, tickScheduled>>
resourceVars == <<cleaned, videoRef, handLandmarker, stream, tickScheduled>>

\* enum AppMode
TREE == "TREE"
EXPLODE == "EXPLODE"
AppMode == {TREE, EXPLODE}

\* No frame has written the instance matrices yet.
Unset == <<>>
\* No call yet.
NoCall == [made |-> FALSE]
NoCalls == [stateChanges |-> 0, triggers |-> <<>>]
\* predictWebcam has not been called yet.
NoTick == [ran |-> FALSE]

InitialGestureState ==
    [isHandDetected |-> FALSE,
     isPinching |-> FALSE,
     isOpen |-> FALSE,
     handPosition |-> [x |-> UNIT \div 2, y |-> UNIT \div 2],
     rotationOffset |-> 0]

Init ==
    /\ mode = TREE
    /\ gestureState = InitialGestureState
    /\ transitionRef = 0
    /\ \E seed \in 1..MaxSeed :
          /\ leavesData = GenLeaves(seed)
          /\ ornamentsData = GenOrnaments(seed)
          /\ ribbonData = GenRibbon(seed)
          /\ starExplodePos = GenStarExplodePos(seed)
    /\ starTreePos = GenStarTreePos
    /\ leavesMatrix = Unset
    /\ ornamentsMatrix = Unset
    /\ ribbonMatrix = Unset
    /\ starPosition = Vec(0, 0, 0)
    /\ ctrl = "resolvingFileset"
    /\ loading = TRUE
    /\ error = "null"
    /\ lastVideoTime = -1
    /\ tickCalls = NoCalls
    /\ lastTick = NoTick
    /\ cleaned = FALSE
    /\ videoRef = "attached"
    /\ handLandmarker = "null"
    /\ stream = "none"
    /\ tickScheduled = FALSE
    /\ treeCall = NoCall

\* ---------------------------------------------------------------------- App

\* Mutant of toggleModeUpdater: a click always explodes.
toggleModeUpdater_explode(prev) == EXPLODE

\* The updater toggleMode passes to setMode.
toggleModeUpdater(prev) == IF prev = TREE THEN EXPLODE ELSE TREE

\* onClick of the scene's container.
toggleMode ==
    /\ mode' = toggleModeUpdater(mode)
    /\ UNCHANGED <<gestureState, dataVars, sceneVars, controllerVars, treeCall>>

\* Mutant of MergeState: the new state replaces the fields it does not name
\* by their initial values.
MergeState_reset(prev, newState) ==
    [k \in DOMAIN prev |-> IF k \in DOMAIN newState THEN newState[k]
                           ELSE InitialGestureState[k]]

\* { ...prev, ...newState }
MergeState(prev, newState) ==
    [k \in DOMAIN prev |-> IF k \in DOMAIN newState THEN newState[k] ELSE prev[k]]

\* handleGestureStateChange: the gesture state after setGestureState's updater.
handleGestureStateChange(prev, newState) == MergeState(prev, newState)

\* handleModeTrigger: the mode after setMode(newMode).
handleModeTrigger(prev, newMode) == newMode


\* -------------------------------------------------------- GestureController

\* results.landmarks of detectForVideo for one frame: the empty sequence, or
\* the landmarks of one hand (numHands: 1).  Only the landmarks the code
\* reads are kept: 0 wrist, 4 thumb tip, 8 12 16 20 finger tips, 9
\* middle-finger base.
NoHand == <<>>
Pt(x, y) == [x |-> x, y |-> y]

\* Thumb tip relative to the index tip: at 0.05, at exactly 0.08, at 0.10.
ThumbGaps == {Pt(3, 4), Pt(0, 8), Pt(6, 8)}
\* Finger tips relative to the wrist (index, middle, ring, little): an open
\* hand (mean 0.39), a mean of exactly 0.30, a fist (mean 0.1575).
Spreads == {<<Pt(30, -40), Pt(0, -40), Pt(0, -36), Pt(0, -30)>>,
            <<Pt(18, -24), Pt(0, -30), Pt(0, -30), Pt(0, -30)>>,
            <<Pt(9, -12), Pt(0, -16), Pt(0, -16), Pt(0, -16)>>}
\* landmarks[9].x
PalmXs == {20, 80}
Fist == <<Pt(9, -12), Pt(0, -16), Pt(0, -16), Pt(0, -16)>>

MakeHand(px, gap, spread) ==
    LET wrist == Pt(px, 90) IN
    (0 :> wrist) @@
    (9 :> Pt(px, 60)) @@
    (8 :> Pt(wrist.x + spread[1].x, wrist.y + spread[1].y)) @@
    (4 :> Pt(wrist.x + spread[1].x + gap.x, wrist.y + spread[1].y + gap.y)) @@
    (12 :> Pt(wrist.x + spread[2].x, wrist.y + spread[2].y)) @@
    (16 :> Pt(wrist.x + spread[3].x, wrist.y + spread[3].y)) @@
    (20 :> Pt(wrist.x + spread[4].x, wrist.y + spread[4].y))

\* Every thumb gap with every spread on one side of the picture, and a fist
\* on the other side.
Hands == {MakeHand(20, gap, spread) : gap \in ThumbGaps, spread \in Spreads}
         \cup {MakeHand(px, Pt(6, 8), Fist) : px \in PalmXs}
Detections == {<<h>> : h \in Hands} \cup {NoHand}
VideoTimes == 0..MaxVideoTime

\* distance < 0.08
IsPinching(landmarks) ==
    LET thumbTip == landmarks[4]
        indexTip == landmarks[8]
        distance == Hypot(thumbTip.x - indexTip.x, thumbTip.y - indexTip.y)
    IN  distance < (8 * UNIT) \div 100

\* Four times avgDist: the sum of the tips' distances from the wrist.
AvgDistTimes4(landmarks) ==
    LET wrist == landmarks[0]
        d(i) == Hypot(landmarks[i].x - wrist.x, landmarks[i].y - wrist.y)
    IN  d(8) + d(12) + d(16) + d(20)

\* Mutant of IsOpen: the pinch is not excluded.
IsOpen_pinchToo(landmarks) == AvgDistTimes4(landmarks) > 4 * ((3 * UNIT) \div 10)

\* avgDist > 0.3 && !isPinching
IsOpen(landmarks) ==
    /\ AvgDistTimes4(landmarks) > 4 * ((3 * UNIT) \div 10)
    /\ ~IsPinching(landmarks)

\* The object predictWebcam passes to onStateChange for a detected hand.
HandState(landmarks) ==
    LET handX == UNIT - landmarks[9].x
        handY == landmarks[9].y
    IN  [isHandDetected |-> TRUE,
         isPinching |-> IsPinching(landmarks),
         isOpen |-> IsOpen(landmarks),
         handPosition |-> [x |-> handX, y |-> handY],
         rotationOffset |-> (handX - UNIT \div 2) * 2]

\* The object passed to onStateChange when no hand is found.
LostState == [isHandDetected |-> FALSE]

\* Mutant of Triggers: the two triggers are swapped.
Triggers_swapped(landmarks) ==
    (IF IsPinching(landmarks) THEN <<EXPLODE>> ELSE <<>>) \o
    (IF IsOpen(landmarks) THEN <<TREE>> ELSE <<>>)

\* The onModeTrigger calls of one processed frame with a hand, in order.
Triggers(landmarks) ==
    (IF IsPinching(landmarks) THEN <<TREE>> ELSE <<>>) \o
    (IF IsOpen(landmarks) THEN <<EXPLODE>> ELSE <<>>)

\* The mode after a sequence of onModeTrigger calls.
RECURSIVE ApplyTriggers(_, _)
ApplyTriggers(m, ts) ==
    IF ts = <<>> THEN m ELSE ApplyTriggers(handleModeTrigger(m, Head(ts)), Tail(ts))

\* What detectForVideo can do: a closed landmarker may throw instead of
\* returning landmarks.
DetectThrows == IF handLandmarker = "closed" THEN BOOLEAN ELSE {FALSE}

\* The video element has the camera stream as srcObject: startCamera set it
\* on its way to adding the loadeddata listener.
HasSrcObject == ctrl \in {"awaitingLoadedData", "running"}

\* One call of predictWebcam while the video shows the frame of time
\* currentTime, for which the landmarker returns the landmarks `results`, or
\* throws. Without the video and canvas elements the call returns at once. A
\* call whose frame was already processed only schedules the next call. The
\* drawing on the canvas is left out.
predictWebcam(currentTime, results, throws) ==
    IF videoRef = "null"
    THEN /\ tickCalls' = NoCalls
         /\ lastTick' = [ran |-> TRUE, video |-> FALSE]
         /\ tickScheduled' = FALSE
         /\ UNCHANGED <<lastVideoTime, gestureState, mode>>
    ELSE IF currentTime # lastVideoTime
    THEN /\ lastVideoTime' = currentTime
         /\ lastTick' = [ran |-> TRUE, video |-> TRUE, newFrame |-> TRUE,
                         detections |-> 1, scheduled |-> ~throws]
         /\ tickScheduled' = ~throws
         /\ IF throws
            THEN /\ tickCalls' = NoCalls
                 /\ UNCHANGED <<gestureState, mode>>
            ELSE IF Len(results) > 0
            THEN LET landmarks == results[1] IN
                 /\ gestureState' = handleGestureStateChange(gestureState,
                                                             HandState(landmarks))
                 /\ mode' = ApplyTriggers(mode, Triggers(landmarks))
                 /\ tickCalls' = [stateChanges |-> 1, triggers |-> Triggers(landmarks)]
            ELSE /\ gestureState' = handleGestureStateChange(gestureState, LostState)
                 /\ mode' = mode
                 /\ tickCalls' = [stateChanges |-> 1, triggers |-> <<>>]
    ELSE /\ tickCalls' = NoCalls
         /\ lastTick' = [ran |-> TRUE, video |-> TRUE, newFrame |-> FALSE,
                         detections |-> 0, scheduled |-> TRUE]
         /\ tickScheduled' = TRUE
         /\ UNCHANGED <<lastVideoTime, gestureState, mode>>

\* setupMediaPipe: FilesetResolver.forVisionTasks resolves.
FilesetResolved ==
    /\ ctrl = "resolvingFileset"
    /\ ctrl' = "creatingLandmarker"
    /\ UNCHANGED <<appVars, dataVars, sceneVars, loading, error, lastVideoTime,
                   tickCalls, lastTick, resourceVars, treeCall>>

\* setupMediaPipe: HandLandmarker.createFromOptions resolves and is assigned
\* to handLandmarker; startCamera asks for the camera, unless the video
\* element is gone.
LandmarkerCreated ==
    /\ ctrl = "creatingLandmarker"
    /\ handLandmarker' = "open"
    /\ ctrl' = IF videoRef = "attached" THEN "requestingCamera" ELSE "noVideo"
    /\ UNCHANGED <<appVars, dataVars, sceneVars, loading, error, lastVideoTime,
                   tickCalls, lastTick, cleaned, videoRef, stream, tickScheduled,
                   treeCall>>

\* Mutant of SetupFailed: the catch block leaves the loading flag set.
SetupFailed_stillLoading ==
    /\ ctrl \in {"resolvingFileset", "creatingLandmarker"}
    /\ ctrl' = "failed"
    /\ error' = "Failed to load AI model."
    /\ UNCHANGED <<appVars, dataVars, sceneVars, loading, lastVideoTime, tickCalls,
                   lastTick, resourceVars, treeCall>>

\* setupMediaPipe: either await rejects (the catch block).
SetupFailed ==
    /\ ctrl \in {"resolvingFileset", "creatingLandmarker"}
    /\ ctrl' = "failed"
    /\ error' = "Failed to load AI model."
    /\ loading' = FALSE
    /\ UNCHANGED <<appVars, dataVars, sceneVars, lastVideoTime, tickCalls,
                   lastTick, resourceVars, treeCall>>

\* startCamera: getUserMedia resolves with a live stream. With the video
\* element in place it becomes the srcObject and the loadeddata listener is
\* added; without it the assignment throws into the catch block.
CameraGranted ==
    /\ ctrl = "requestingCamera"
    /\ stream' = "live"
    /\ IF videoRef = "attached"
       THEN /\ ctrl' = "awaitingLoadedData"
            /\ UNCHANGED <<loading, error>>
       ELSE /\ ctrl' = "failed"
            /\ error' = "Camera access denied."
            /\ loading' = FALSE
    /\ UNCHANGED <<appVars, dataVars, sceneVars, lastVideoTime, tickCalls,
                   lastTick, cleaned, videoRef, handLandmarker, tickScheduled,
                   treeCall>>

\* startCamera: getUserMedia rejects (the catch block).
CameraDenied ==
    /\ ctrl = "requestingCamera"
    /\ ctrl' = "failed"
    /\ error' = "Camera access denied."
    /\ loading' = FALSE
    /\ UNCHANGED <<appVars, dataVars, sceneVars, lastVideoTime, tickCalls,
                   lastTick, resourceVars, treeCall>>

\* The video's loadeddata listener, once the live stream has delivered a
\* frame: setLoading(false), then the first predictWebcam call. The listener
\* is never removed.
LoadedData ==
    /\ ctrl = "awaitingLoadedData"
    /\ stream = "live"
    /\ ctrl' = "running"
    /\ loading' = FALSE
    /\ \E currentTime \in VideoTimes, results \in Detections, throws \in DetectThrows :
          predictWebcam(currentTime, results, throws)
    /\ UNCHANGED <<dataVars, sceneVars, error, cleaned, videoRef, handLandmarker,
                   stream, treeCall>>

\* The requestAnimationFrame callback predictWebcam scheduled.
PredictTick ==
    /\ tickScheduled
    /\ \E currentTime \in VideoTimes, results \in Detections, throws \in DetectThrows :
          predictWebcam(currentTime, results, throws)
    /\ UNCHANGED <<dataVars, sceneVars, ctrl, loading, error, cleaned, videoRef,
                   handLandmarker, stream, treeCall>>

\* The effect's cleanup. It runs when the effect re-runs, with the elements
\* still in place, and when the component unmounts, after React has reset
\* the refs to null. It cancels the pending animation frame, stops the
\* tracks of the video's srcObject if the video element is there and has
\* one, and closes handLandmarker if it has been assigned.
Cleanup ==
    /\ ~cleaned
    /\ cleaned' = TRUE
    /\ videoRef' \in {"attached", "null"}
    /\ tickScheduled' = FALSE
    /\ stream' = IF videoRef' = "attached" /\ HasSrcObject THEN "stopped" ELSE stream
    /\ handLandmarker' = IF handLandmarker # "null" THEN "closed" ELSE handLandmarker
    /\ UNCHANGED <<appVars, dataVars, sceneVars, ctrl, loading, error, lastVideoTime,
                   tickCalls, lastTick, treeCall>>


\* ------------------------------------------------- ChristmasTree: useFrame

\* A frame's delta, in 1/DELTA_DEN s.
Deltas == 1..MaxDelta

\* delta * 2.5 as the fraction AlphaNum(delta) / AlphaDen.
AlphaNum(delta) == delta * 25
AlphaDen == DELTA_DEN * 10

\* Mutant of TransitionTarget: the two targets are swapped.
TransitionTarget_swapped(m) == IF m = EXPLODE THEN 0 ELSE TDen

\* const target = mode === AppMode.EXPLODE ? 1 : 0
TransitionTarget(m) == IF m = EXPLODE THEN TDen ELSE 0

\* THREE.MathUtils.lerp(x, y, t) = (1 - t) * x + t * y, with t = num / den.
lerp(x, y, num, den) == ((den - num) * x + num * y) \div den

\* The fixed-point grid holds lerp(x, y, num / den) exactly, and within the
\* range the model keeps.  Only frames whose delta passes are drawn: from
\* every state the frame with delta * 2.5 = 1 is among them.
Representable(x, y, num, den) ==
    /\ ((den - num) * x + num * y) % den = 0
    /\ Abs(lerp(x, y, num, den)) <= MaxOvershoot * TDen

\* Mutant of lerpVectors: the blend runs from v2 to v1.
lerpVectors_reversed(v1, v2, alpha) ==
    [c \in 1..3 |-> v2[c] * TDen + (v1[c] - v2[c]) * alpha]

\* Vector3.lerpVectors(v1, v2, alpha) = v1 + (v2 - v1) * alpha; alpha is
\* times TDen and so is the result.
lerpVectors(v1, v2, alpha) ==
    [c \in 1..3 |-> v1[c] * TDen + (v2[c] - v1[c]) * alpha]

\* Vector3.multiplyScalar(num / den)
multiplyScalar(v, num, den) == [c \in 1..3 |-> (v[c] * num) \div den]

\* Mutant of useFrame: the ribbon's explodePos is scaled in place (no clone).
useFrame_noClone(delta) ==
    LET target == TransitionTarget(mode)
        t == lerp(transitionRef, target, AlphaNum(delta), AlphaDen)
        scaled == [n \in DOMAIN ribbonData |->
                     [ribbonData[n] EXCEPT !.explodePos = multiplyScalar(@, 3, 2)]]
    IN  /\ Representable(transitionRef, target, AlphaNum(delta), AlphaDen)
        /\ transitionRef' = t
        /\ leavesMatrix' = [n \in DOMAIN leavesData |->
              [position |-> lerpVectors(leavesData[n].treePos, leavesData[n].explodePos, t),
               scale |-> leavesData[n].scale * (2 * TDen - t)]]
        /\ ornamentsMatrix' = [n \in DOMAIN ornamentsData |->
              [position |-> lerpVectors(ornamentsData[n].treePos,
                                        ornamentsData[n].explodePos, t),
               scale |-> ornamentsData[n].scale * 2 * TDen]]
        /\ ribbonData' = scaled
        /\ ribbonMatrix' = [n \in DOMAIN ribbonData |->
              [position |-> lerpVectors(scaled[n].treePos, scaled[n].explodePos, t),
               scale |-> scaled[n].scale * 2 * TDen]]
        /\ starPosition' = lerpVectors(starTreePos, starExplodePos, t)
        /\ UNCHANGED <<appVars, leavesData, ornamentsData, starTreePos, starExplodePos,
                       controllerVars, treeCall>>

\* The useFrame callback, for a frame of the given delta.  The five refs are
\* attached when the first frame runs, so the early return is never taken.
\* The rotations and the star's pulse, functions of the render clock that
\* nothing else reads, are left out.
useFrame(delta) ==
    LET target == TransitionTarget(mode)
        t == lerp(transitionRef, target, AlphaNum(delta), AlphaDen)
    IN  /\ Representable(transitionRef, target, AlphaNum(delta), AlphaDen)
        /\ transitionRef' = t
        /\ leavesMatrix' = [n \in DOMAIN leavesData |->
              [position |-> lerpVectors(leavesData[n].treePos, leavesData[n].explodePos, t),
               scale |-> leavesData[n].scale * (2 * TDen - t)]]
        /\ ornamentsMatrix' = [n \in DOMAIN ornamentsData |->
              [position |-> lerpVectors(ornamentsData[n].treePos,
                                        ornamentsData[n].explodePos, t),
               scale |-> ornamentsData[n].scale * 2 * TDen]]
        /\ ribbonMatrix' = [n \in DOMAIN ribbonData |->
              [position |-> lerpVectors(ribbonData[n].treePos,
                                        multiplyScalar(ribbonData[n].explodePos, 3, 2), t),
               scale |-> ribbonData[n].scale * 2 * TDen]]
        /\ starPosition' = lerpVectors(starTreePos, starExplodePos, t)
        /\ UNCHANGED <<appVars, dataVars, controllerVars, treeCall>>

Frame == \E delta \in Deltas : useFrame(delta)

\* --------------------------------------------------------- specifications

Next ==
    \/ toggleMode
    \/ FilesetResolved
    \/ LandmarkerCreated
    \/ SetupFailed
    \/ CameraGranted
    \/ CameraDenied
    \/ LoadedData
    \/ PredictTick
    \/ Cleanup
    \/ Frame

Spec == Init /\ [][Next]_vars

\* The render loop draws a frame after every frame: requestAnimationFrame
\* keeps the useFrame callback running.
LiveSpec == Init /\ [][Next]_vars /\ WF_vars(Frame)


\* ------------------------------------------- mathUtils called on its own

\* The arguments getTreePosition is called with: the program's radii, height
\* and offsets among them, over short totals.
Totals == {1, 2, 5, 8}
Radii == {0, UNIT \div 5, TREE_RADIUS, (TREE_RADIUS * 11) \div 10}
Heights == {TREE_HEIGHT, TREE_HEIGHT \div 2}
YOffsets == {TREE_Y_OFFSET, -2 * UNIT}
\* Math.random(): the least value, the middle, the greatest.
Rands == {0, UNIT \div 2, UNIT - 1}

\* Two calls of getTreePosition that differ in the index and the draw only,
\* as the map of leavesData makes them.
CallGetTreePosition ==
    \E total \in Totals, radiusBase \in Radii, height \in Heights, yOffset \in YOffsets :
    \E i \in 0..(total - 1), j \in 0..(total - 1), r1 \in Rands, r2 \in Rands :
        /\ ~treeCall.made
        /\ treeCall' =
              [made |-> TRUE, total |-> total, radiusBase |-> radiusBase,
               height |-> height, yOffset |-> yOffset,
               calls |-> <<[index |-> i,
                            pos |-> getTreePosition(i, total, radiusBase, height,
                                                    yOffset, r1)],
                           [index |-> j,
                            pos |-> getTreePosition(j, total, radiusBase, height,
                                                    yOffset, r2)]>>]
        /\ UNCHANGED <<appVars, dataVars, sceneVars, controllerVars>>

MathNext == CallGetTreePosition

MathSpec == Init /\ [][MathNext]_vars


\* ------------------------------------------------------------------ claims

\* A step in which predictWebcam processed a video frame: lastVideoTime moved
\* to the frame's time and the detection returned, so the state update was
\* delivered.
ProcessedFrame == lastVideoTime' # lastVideoTime /\ tickCalls'.stateChanges = 1

\* A step that delivered a mode trigger.
TriggerStep == ProcessedFrame /\ tickCalls'.triggers # <<>>

\* C1: immediately after a processed video frame in which a hand is detected,
\* the mode is TREE if the hand is pinching and EXPLODE if it is open,
\* whatever the mode was before.
C1_PinchAssemblesOpenExplodes ==
    [][(ProcessedFrame /\ gestureState'.isHandDetected) =>
          /\ gestureState'.isPinching => mode' = TREE
          /\ gestureState'.isOpen => mode' = EXPLODE]_vars

\* C1 witness: a pinch has just assembled a scene that had been exploded and
\* had begun to move.
C1_Witness ==
    /\ gestureState.isHandDetected /\ gestureState.isPinching
    /\ tickCalls.triggers = <<TREE>>
    /\ mode = TREE
    /\ transitionRef > 0

\* C2: the mode is always TREE or EXPLODE, a click turns each into the other,
\* and a second click restores it.
C2_ClickToggles ==
    [][/\ mode' \in AppMode
       /\ toggleMode => /\ mode = TREE => mode' = EXPLODE
                        /\ mode = EXPLODE => mode' = TREE
                        /\ toggleModeUpdater(mode') = mode]_vars

\* C2 witness: a click, and nothing else, has exploded the scene.
C2_Witness ==
    /\ mode = EXPLODE
    /\ ctrl = "resolvingFileset"
    /\ leavesMatrix = Unset

Between(a, x, b) == (a <= x /\ x <= b) \/ (b <= x /\ x <= a)

\* C3: in every frame, whatever its delta, the new transition value lies
\* between the previous value and the target, and so within [0, 1].
C3_TransitionNeverOvershoots ==
    [][/\ Between(transitionRef, transitionRef', TransitionTarget(mode))
       /\ 0 <= transitionRef' /\ transitionRef' <= TDen]_vars

\* The tolerance the transition value is to come within: 1/2.
Tolerance == TDen \div 2

\* C4: if the mode stops changing and frames keep being rendered, the
\* transition value eventually stays within the tolerance of the mode's
\* target.
C4_TransitionSettles ==
    \A m \in AppMode :
        <>[](mode = m) => <>[](Abs(transitionRef - TransitionTarget(m)) <= Tolerance)

\* The blend (1 - t) * a + t * b of two components, times TDen.
Blend(a, b, t) == (TDen - t) * a + t * b

\* A frame has been rendered.
Rendered == leavesMatrix # Unset

\* C5 as claimed: every rendered position, the ribbon's included, is the
\* blend of the stored assembled and the stored exploded position.
C5_BlendOfStoredPositions ==
    Rendered =>
        /\ \A n \in DOMAIN leavesData : \A c \in 1..3 :
              leavesMatrix[n].position[c] =
                  Blend(leavesData[n].treePos[c], leavesData[n].explodePos[c], transitionRef)
        /\ \A n \in DOMAIN ornamentsData : \A c \in 1..3 :
              ornamentsMatrix[n].position[c] =
                  Blend(ornamentsData[n].treePos[c], ornamentsData[n].explodePos[c],
                        transitionRef)
        /\ \A n \in DOMAIN ribbonData : \A c \in 1..3 :
              ribbonMatrix[n].position[c] =
                  Blend(ribbonData[n].treePos[c], ribbonData[n].explodePos[c], transitionRef)
        /\ \A c \in 1..3 :
              starPosition[c] = Blend(starTreePos[c], starExplodePos[c], transitionRef)

\* C5 amended: the rendered position of a leaf, an ornament and the star is
\* the blend of its stored assembled and stored exploded position; that of a
\* ribbon particle is the blend of its stored assembled position and 1.5 times
\* its stored exploded position.  At t = 0 all are at the stored assembled
\* position; at t = 1 the leaves, ornaments and star are at the stored
\* exploded position and the ribbon at 1.5 times it.
C5_BlendWithRibbonScaled ==
    Rendered =>
        /\ \A n \in DOMAIN leavesData : \A c \in 1..3 :
              leavesMatrix[n].position[c] =
                  Blend(leavesData[n].treePos[c], leavesData[n].explodePos[c], transitionRef)
        /\ \A n \in DOMAIN ornamentsData : \A c \in 1..3 :
              ornamentsMatrix[n].position[c] =
                  Blend(ornamentsData[n].treePos[c], ornamentsData[n].explodePos[c],
                        transitionRef)
        /\ \A n \in DOMAIN ribbonData : \A c \in 1..3 :
              2 * ribbonMatrix[n].position[c] =
                  Blend(2 * ribbonData[n].treePos[c], 3 * ribbonData[n].explodePos[c],
                        transitionRef)
        /\ \A c \in 1..3 :
              starPosition[c] = Blend(starTreePos[c], starExplodePos[c], transitionRef)
        /\ transitionRef = 0 =>
              /\ \A n \in DOMAIN leavesData :
                    leavesMatrix[n].position = [c \in 1..3 |-> leavesData[n].treePos[c] * TDen]
              /\ \A n \in DOMAIN ornamentsData :
                    ornamentsMatrix[n].position =
                        [c \in 1..3 |-> ornamentsData[n].treePos[c] * TDen]
              /\ \A n \in DOMAIN ribbonData :
                    ribbonMatrix[n].position = [c \in 1..3 |-> ribbonData[n].treePos[c] * TDen]
              /\ starPosition = [c \in 1..3 |-> starTreePos[c] * TDen]
        /\ transitionRef = TDen =>
              /\ \A n \in DOMAIN leavesData :
                    leavesMatrix[n].position =
                        [c \in 1..3 |-> leavesData[n].explodePos[c] * TDen]
              /\ \A n \in DOMAIN ornamentsData :
                    ornamentsMatrix[n].position =
                        [c \in 1..3 |-> ornamentsData[n].explodePos[c] * TDen]
              /\ \A n \in DOMAIN ribbonData :
                    ribbonMatrix[n].position =
                        [c \in 1..3 |-> ((ribbonData[n].explodePos[c] * 3) \div 2) * TDen]
              /\ starPosition = [c \in 1..3 |-> starExplodePos[c] * TDen]

\* C5 witness: a frame has rendered the fully exploded scene, in which a
\* ribbon particle is away from its stored exploded position.
C5_Witness ==
    /\ Rendered
    /\ transitionRef = TDen
    /\ \E n \in DOMAIN ribbonData :
          ribbonMatrix[n].position # [c \in 1..3 |-> ribbonData[n].explodePos[c] * TDen]

\* C6: no step changes a particle's stored assembled position, stored
\* exploded position or scale, nor the length or order of a group's sequence.
C6_ParticleDataNeverChanges ==
    [][/\ leavesData' = leavesData
       /\ ornamentsData' = ornamentsData
       /\ ribbonData' = ribbonData
       /\ starTreePos' = starTreePos /\ starExplodePos' = starExplodePos
       /\ Len(leavesData') = COUNT_LEAVES
       /\ Len(ornamentsData') = COUNT_ORNAMENTS
       /\ Len(ribbonData') = COUNT_RIBBON]_vars

\* C6 witness: a click, a gesture trigger and frames have all happened, and
\* the data is what some seed generated.
C6_Witness ==
    /\ Rendered /\ transitionRef > 0 /\ transitionRef < TDen
    /\ mode = TREE
    /\ tickCalls.triggers = <<TREE>>
    /\ \E seed \in 1..MaxSeed :
          /\ leavesData = GenLeaves(seed)
          /\ ornamentsData = GenOrnaments(seed)
          /\ ribbonData = GenRibbon(seed)

\* The scene at rest in the assembled state.
Assembled ==
    /\ mode = TREE
    /\ transitionRef = 0

\* The state at startup.
AtStartup ==
    /\ Assembled
    /\ ~gestureState.isHandDetected
    /\ gestureState.rotationOffset = 0

\* C7: at startup the mode is TREE, the transition value 0, no hand is
\* detected and the rotation offset is 0; and every step that is neither a
\* click nor a gesture trigger leaves the assembled scene assembled: the
\* target stays 0 and the transition value stays 0.
C7_AssembledUntilFirstInput ==
    AtStartup /\ [][(Assembled /\ ~toggleMode /\ ~TriggerStep) =>
                       (Assembled' /\ TransitionTarget(mode') = 0)]_vars

\* C7 witness: frames have been rendered and a hand has been seen, without a
\* trigger, and the scene is still assembled.
C7_Witness ==
    /\ Rendered
    /\ Assembled
    /\ gestureState.isHandDetected
    /\ tickCalls = [stateChanges |-> 1, triggers |-> <<>>]

\* C8: in every gesture state the app holds, isPinching and isOpen are never
\* both true, and a processed frame issues at most one mode trigger.
C8_GesturesMutuallyExclusive ==
    /\ ~(gestureState.isPinching /\ gestureState.isOpen)
    /\ Len(tickCalls.triggers) <= 1

\* C8 witness: the hand was lost after an open hand, and only isHandDetected
\* was overwritten.
C8_Witness ==
    /\ ~gestureState.isHandDetected
    /\ gestureState.isOpen
    /\ tickCalls = [stateChanges |-> 1, triggers |-> <<>>]

\* C9: the mode changes only in a click or in a processed frame with a pinch
\* or an open hand; a processed frame with no hand, or with a hand neither
\* pinching nor open, leaves the mode unchanged; and a no-hand frame changes
\* isHandDetected alone.
C9_ModeChangesOnlyByInput ==
    [][/\ mode' # mode =>
             \/ toggleMode
             \/ /\ ProcessedFrame /\ gestureState'.isHandDetected
                /\ gestureState'.isPinching \/ gestureState'.isOpen
       /\ (ProcessedFrame /\ ~gestureState'.isHandDetected) =>
             /\ mode' = mode
             /\ gestureState' = [gestureState EXCEPT !.isHandDetected = FALSE]
       /\ (ProcessedFrame /\ gestureState'.isHandDetected
             /\ ~gestureState'.isPinching /\ ~gestureState'.isOpen) =>
             mode' = mode]_vars

\* C9 witness: after a pinch on the right of the picture the hand is lost in
\* an exploded scene: the pinch, the hand position and the rotation offset
\* are still those of the pinch.
C9_Witness ==
    /\ ~gestureState.isHandDetected
    /\ gestureState.isPinching
    /\ gestureState.handPosition.x # UNIT \div 2
    /\ gestureState.rotationOffset # 0
    /\ mode = EXPLODE
    /\ tickCalls = [stateChanges |-> 1, triggers |-> <<>>]

\* The least d with d * d >= n.
CeilSqrt(n) == IF Isqrt(n) * Isqrt(n) = n THEN Isqrt(n) ELSE Isqrt(n) + 1

\* C10: for 0 <= index < total, the height of getTreePosition's point above
\* yOffset lies in [0, height) and strictly increases with index, and its
\* horizontal distance from the axis is at least 0 and at most
\* radiusBase * (1 - index / total) + 0.25.
C10_TreePositionOnCone ==
    treeCall.made =>
        LET a == treeCall.calls[1]
            b == treeCall.calls[2]
            Rise(c) == c.pos[2] - treeCall.yOffset * DIR * PER
            Dist(c) == CeilSqrt(c.pos[1] * c.pos[1] + c.pos[3] * c.pos[3])
        IN  /\ \A c \in {a, b} :
                  /\ 0 <= Rise(c) /\ Rise(c) < treeCall.height * DIR * PER
                  /\ 0 <= Dist(c)
                  /\ Dist(c) * treeCall.total <=
                        (treeCall.radiusBase * (treeCall.total - c.index)
                           + (UNIT \div 4) * treeCall.total) * DIR * PER
            /\ a.index < b.index => Rise(a) < Rise(b)

\* C10 witness: two calls at different indices of a cone of positive radius,
\* the upper one with its radius cut off at 0.
C10_Witness ==
    /\ treeCall.made
    /\ treeCall.radiusBase > 0
    /\ treeCall.calls[1].index < treeCall.calls[2].index
    /\ treeCall.calls[1].pos[1] # 0
    /\ treeCall.calls[2].pos[1] = 0 /\ treeCall.calls[2].pos[3] = 0

\* C11: once the effect's cleanup has run, no prediction tick is scheduled,
\* no camera track the effect acquired is live, the hand landmarker it
\* created is not left open, and no step delivers onStateChange or
\* onModeTrigger, whenever the cleanup ran relative to the model load, the
\* camera grant and the loadeddata event.
C11_CleanupStopsController ==
    [][cleaned' =>
          /\ ~tickScheduled'
          /\ stream' # "live"
          /\ handLandmarker' # "open"
          /\ (cleaned => ~ProcessedFrame)]_vars

\* C12: when the model load fails or the camera is refused, the controller
\* is in its error state from then on (the matching error message, loading
\* false); predictWebcam has never run and no tick is scheduled, so the
\* gesture state is still the initial one; and the mode still changes, and
\* only changes, by a click, which toggles it.
C12_FailureLeavesClicksOnly ==
    [][ctrl' = "failed" =>
          /\ ctrl \in {"resolvingFileset", "creatingLandmarker"} =>
                error' = "Failed to load AI model."
          /\ ctrl = "requestingCamera" => error' = "Camera access denied."
          /\ ctrl = "failed" => error' = error
          /\ ~loading'
          /\ lastTick' = NoTick /\ ~tickScheduled'
          /\ lastVideoTime' = -1 /\ tickCalls' = NoCalls
          /\ gestureState' = InitialGestureState
          /\ mode' # mode => mode' = toggleModeUpdater(mode)
          /\ ENABLED toggleMode]_vars

\* C12 witness: the camera was refused, and a click has since exploded the
\* tree.
C12_Witness ==
    /\ ctrl = "failed"
    /\ error = "Camera access denied."
    /\ stream = "none"
    /\ ~loading
    /\ mode = EXPLODE

=============================================================================
